---- MODULE Spec2Model ----
(***************************************************************************)
(* Model of tools/recon-neonatal-cortex.py: the stage scheduler            *)
(* recon_neonatal_cortex (one session), and the session loop of the script *)
(* that calls it or submits it with sbatch.                                *)
(*                                                                         *)
(* The file system is the only persistent state.  files[a] is "P" when     *)
(* artifact a exists, "M" when it does not, and "U" while the program has  *)
(* neither tested nor written the path: an os.path.isfile() on a "U" entry *)
(* may answer either way and fixes the entry from then on.  Every initial  *)
(* Present/Missing state of the artifacts is covered this way.             *)
(***************************************************************************)
EXTENDS Naturals, Sequences, FiniteSets

VARIABLES
    files,      \* artifact role -> "U" | "P" | "M" (session directory on disk)
    sw,         \* keyword arguments of the running recon_neonatal_cortex call
    debug,      \* neoctx.debug, the debug/retention level
    pc,         \* position inside recon_neonatal_cortex
    calls,      \* calls of neoctx operations made by the current run, in order
    removed,    \* files deleted by os.remove in the current run: [path, after], after
                \* being the number of neoctx calls the run had made by then
    failedAt,   \* the operation that raised in the current run, or "none"
    run,        \* number of the current run of the executor on this session
    files0,     \* files as they were when the current run started
    seen,       \* the store the current run started from, as far as the run has
                \* found it out: files0 with the answers isfile() and os.remove gave
                \* for paths the run had not written
    prev,       \* how the previous run on this session ended
    args,       \* the parsed command line of the script
    py3,        \* whether the interpreter is Python 3 (pipes carry bytes)
    sessions,   \* the resolved session list
    k,          \* index in sessions of the session of the current iteration
    failed,     \* the script's counter of failed sessions
    processed,  \* the iterations completed, in order, and whether each raised
    status,     \* exit status of the process, once mpc = "exit"
    info,       \* subject_id, session_id and session of the current iteration
    jobs,       \* the calls of sbatch made so far and the batch jobs they submitted
    csvfile,    \* what the script found at the path of the CSV file
    mpc         \* position in the script: "call" when the executor is called directly

execVars == <<files, sw, debug, pc, calls, removed, failedAt, run, files0, seen, prev>>

mainVars == <<args, py3, sessions, k, failed, processed, status, info, jobs, csvfile, mpc>>

vars == <<execVars, mainVars>>

(***************************************************************************)
(* Bounds of the model.                                                    *)
(***************************************************************************)
MaxDebug == 1
MaxRuns == 2
MaxSessions == 3
MaxLen == 3
MaxTokens == 2
MaxRows == 1

None == "None"

Artifacts ==
    {"brain_mesh", "bs_cb_mesh", "internal_mesh", "cerebrum_mesh",
     "right_cerebrum_mesh", "left_cerebrum_mesh",
     "white_mesh", "right_white_mesh", "left_white_mesh",
     "pial_mesh", "right_pial_mesh", "left_pial_mesh"}

\* The two input files the executor tests itself, lines 128-131.
OptionalInputs == {"t1w_image", "corpus_callosum_mask"}

Paths == Artifacts \cup OptionalInputs

(***************************************************************************)
(* The file system.                                                        *)
(***************************************************************************)
isfile(s, a) == s[a] = "P"

\* The stores that agree with s on every path already tested or written and
\* give an answer for each path of F.
Completions(s, F) ==
    {[a \in Paths |-> IF a \in F /\ s[a] = "U" THEN c[a] ELSE s[a]] :
        c \in [F -> {"P", "M"}]}

\* The outcomes of testing the paths on which a gate depends: gate maps each
\* completion of s on the paths the condition names to the condition's value.
Resolve(s, gate) ==
    IF \A t \in DOMAIN gate, u \in DOMAIN gate : gate[t] = gate[u]
    THEN {s}
    ELSE DOMAIN gate

\* What the run knows of the store it started from once it has the answers s:
\* an answer about a path the run has written or deleted tells nothing of it.
\* The record is kept for the runs of the executor called directly.
Observed(s) ==
    IF mpc # "call"
    THEN seen
    ELSE [a \in Paths |-> IF seen[a] = "U" /\ files[a] = "U" THEN s[a] ELSE seen[a]]

Written(s, outs) == [a \in Paths |-> IF a \in outs THEN "P" ELSE s[a]]

Deleted(s, outs) == [a \in Paths |-> IF a \in outs THEN "M" ELSE s[a]]

(***************************************************************************)
(* Normalisation of the --white / --pial options, lines 301-305.           *)
(***************************************************************************)
NormWhite(white, pial) == IF ~white /\ ~pial THEN TRUE ELSE IF pial THEN TRUE ELSE white

NormPial(white, pial) == IF ~white /\ ~pial THEN TRUE ELSE pial

(***************************************************************************)
(* recon_neonatal_cortex: local names, lines 122-138.  The two isfile()    *)
(* tests of lines 128-131 are made when the function starts; nothing else  *)
(* changes the two input files while it runs, so the model takes their     *)
(* answers when the first call that is handed the local name is made.      *)
(***************************************************************************)
brain_mesh == IF ~sw.with_brain_mesh THEN None ELSE "brain_mesh"

bs_cb_mesh == IF ~sw.with_bs_cb_mesh THEN None ELSE "bs_cb_mesh"

pial_mesh == IF ~sw.with_pial_mesh THEN None ELSE "pial_mesh"

white_mesh == "white_mesh"

\* Faulty variant: the configured path is handed on untested.
t1w_image_untested(s) == "t1w_image"

t1w_image(s) == IF ~isfile(s, "t1w_image") THEN None ELSE "t1w_image"

corpus_callosum_mask(s) ==
    IF ~isfile(s, "corpus_callosum_mask") THEN None ELSE "corpus_callosum_mask"

bs_cb_mesh_1 == IF bs_cb_mesh # None /\ sw.join_bs_cb_mesh THEN bs_cb_mesh ELSE None

\* Faulty variant: the guide mesh is passed on whatever join_bs_cb_mesh says.
bs_cb_mesh_2_always == bs_cb_mesh

bs_cb_mesh_2 == IF bs_cb_mesh # None /\ sw.join_bs_cb_mesh THEN None ELSE bs_cb_mesh

(***************************************************************************)
(* recon_neonatal_cortex: the conditions that gate the stages.             *)
(***************************************************************************)
\* Faulty variant: the stage is not tied to its switch.
NeedBrain_unrequested(s) == sw.force \/ ~isfile(s, "brain_mesh")

NeedBrain(s) == brain_mesh # None /\ (sw.force \/ ~isfile(s, "brain_mesh"))

NeedBsCb(s) == bs_cb_mesh # None /\ (sw.force \/ ~isfile(s, "bs_cb_mesh"))

CorticalBlock == sw.with_white_mesh \/ sw.with_pial_mesh

\* Faulty variant: the block tests the intermediate mesh instead of its final output.
NeedCortex_intermediate(s) == sw.force \/ ~isfile(s, "cerebrum_mesh")

NeedCortex(s) == sw.force \/ ~isfile(s, "white_mesh")

\* Faulty variant: an existing cerebrum_mesh is not reused.
NeedJoin_always(s) == TRUE

NeedJoin(s) == sw.force \/ ~isfile(s, "cerebrum_mesh")

\* Faulty variant: "and" for "or".
NeedRight_and(s) == sw.force /\ ~isfile(s, "right_cerebrum_mesh")

NeedRight(s) == sw.force \/ ~isfile(s, "right_cerebrum_mesh")

\* Faulty variant: the "not" is missing.
NeedLeft_inverted(s) == sw.force \/ isfile(s, "left_cerebrum_mesh")

NeedLeft(s) == sw.force \/ ~isfile(s, "left_cerebrum_mesh")

NeedWhite(s) == sw.force \/ ~isfile(s, "white_mesh")

NeedWhiteCut(s) ==
    sw.cut /\ white_mesh # None
           /\ (sw.force \/ ~isfile(s, "right_white_mesh") \/ ~isfile(s, "left_white_mesh"))

\* Faulty variant: force is not consulted.
NeedPial_noforce(s) == pial_mesh # None /\ ~isfile(s, "pial_mesh")

NeedPial(s) == pial_mesh # None /\ (sw.force \/ ~isfile(s, "pial_mesh"))

NeedPialCut(s) ==
    sw.cut /\ pial_mesh # None
           /\ (sw.force \/ ~isfile(s, "right_pial_mesh") \/ ~isfile(s, "left_pial_mesh"))

\* Faulty variant: the comparison is inverted.
KeepIntermediates_inverted == debug < 1

\* Faulty variant: off by one, level 0 keeps the files too.
KeepIntermediates_lenient == ~(debug < 0)

KeepIntermediates == ~(debug < 1)

(***************************************************************************)
(* The neoctx operations.  Each names its output paths in the call; a call *)
(* that returns has written them, a call that raises may have written any  *)
(* of them (a partial file exists like a complete one) and nothing else.   *)
(***************************************************************************)
Outputs(stage) ==
    CASE stage = "brain"     -> {"brain_mesh"}
      [] stage = "bs_cb"     -> {"bs_cb_mesh"}
      [] stage = "right"     -> {"right_cerebrum_mesh"}
      [] stage = "left"      -> {"left_cerebrum_mesh"}
      [] stage = "join"      -> {"cerebrum_mesh", "internal_mesh"}
      [] stage = "white"     -> {"white_mesh"}
      [] stage = "white_cut" -> {"right_white_mesh", "left_white_mesh"}
      [] stage = "pial"      -> {"pial_mesh"}
      [] stage = "pial_cut"  -> {"right_pial_mesh", "left_pial_mesh"}

Stages ==
    {"brain", "bs_cb", "right", "left", "join", "white", "white_cut", "pial", "pial_cut"}

\* What a call may leave on disk: [ok |-> whether it returned, files |-> ...].
Outcomes(s, stage) ==
    {[ok |-> TRUE, files |-> Written(s, Outputs(stage))]}
        \cup {[ok |-> FALSE, files |-> Written(s, part)] : part \in SUBSET Outputs(stage)}

\* The files a call is handed that the executor has not made sure of.
Inputs(stage) ==
    CASE stage \in {"right", "left"}         -> {"corpus_callosum_mask"}
      [] stage = "white"                     -> {"t1w_image"}
      [] stage \in {"white_cut", "pial_cut"} -> {"internal_mesh"}
      [] OTHER                               -> {}

\* The t1w_image or corpus_callosum_mask argument of a call, "-" when the
\* operation has neither.
OptionalArg(s, stage) ==
    CASE stage \in {"right", "left"} -> corpus_callosum_mask(s)
      [] stage = "white"             -> t1w_image(s)
      [] OTHER                       -> "-"

\* Faulty variant: the exception of a failed call is swallowed and the run goes on.
Invoke_swallow(s, stage, arg, next) ==
    \E t \in Completions(s, Inputs(stage)) : \E o \in Outcomes(t, stage) :
        /\ calls' = Append(calls, [stage |-> stage, bs_cb_mesh |-> arg,
                                   optional |-> OptionalArg(t, stage)])
        /\ files' = o.files
        /\ seen' = Observed(t)
        /\ pc' = next
        /\ failedAt' = IF o.ok THEN failedAt ELSE stage
        /\ UNCHANGED removed

\* One call of a neoctx operation with the mesh argument bs_cb_mesh = arg;
\* the exception of a call that raises leaves recon_neonatal_cortex.  The
\* operation opens the files of Inputs(stage), present or not.
Invoke(s, stage, arg, next) ==
    \E t \in Completions(s, Inputs(stage)) : \E o \in Outcomes(t, stage) :
        /\ calls' = Append(calls, [stage |-> stage, bs_cb_mesh |-> arg,
                                   optional |-> OptionalArg(t, stage)])
        /\ files' = o.files
        /\ seen' = Observed(t)
        /\ pc' = IF o.ok THEN next ELSE "failed"
        /\ failedAt' = IF o.ok THEN failedAt ELSE stage
        /\ UNCHANGED removed

Skip(s, next) ==
    /\ files' = s
    /\ seen' = Observed(s)
    /\ pc' = next
    /\ UNCHANGED <<calls, removed, failedAt>>

Frame == UNCHANGED <<sw, debug, run, files0, prev, mainVars>>

(***************************************************************************)
(* recon_neonatal_cortex, one action per stage of lines 140-234.           *)
(***************************************************************************)
BrainStage ==
    /\ pc = "brain"
    /\ \E s \in Resolve(files, [c \in Completions(files, {"brain_mesh"}) |-> NeedBrain(c)]) :
        IF NeedBrain(s) THEN Invoke(s, "brain", "-", "bs_cb") ELSE Skip(s, "bs_cb")
    /\ Frame

BsCbStage ==
    /\ pc = "bs_cb"
    /\ \E s \in Resolve(files, [c \in Completions(files, {"bs_cb_mesh"}) |-> NeedBsCb(c)]) :
        IF NeedBsCb(s) THEN Invoke(s, "bs_cb", "-", "cortex") ELSE Skip(s, "cortex")
    /\ Frame

\* Lines 153-157: the nested conditions that lead to the hemisphere stages.
CortexGate ==
    /\ pc = "cortex"
    /\ IF ~CorticalBlock
       THEN Skip(files, "done")
       ELSE \E s \in Resolve(files, [c \in Completions(files, {"white_mesh"}) |-> NeedCortex(c)]) :
                IF ~NeedCortex(s)
                THEN Skip(s, "white")
                ELSE \E t \in Resolve(s, [u \in Completions(s, {"cerebrum_mesh"}) |-> NeedJoin(u)]) :
                        IF NeedJoin(t) THEN Skip(t, "right") ELSE Skip(t, "white")
    /\ Frame

RightStage ==
    /\ pc = "right"
    /\ \E s \in Resolve(files, [c \in Completions(files, {"right_cerebrum_mesh"}) |-> NeedRight(c)]) :
        IF NeedRight(s) THEN Invoke(s, "right", "-", "left") ELSE Skip(s, "left")
    /\ Frame

LeftStage ==
    /\ pc = "left"
    /\ \E s \in Resolve(files, [c \in Completions(files, {"left_cerebrum_mesh"}) |-> NeedLeft(c)]) :
        IF NeedLeft(s) THEN Invoke(s, "left", "-", "join") ELSE Skip(s, "join")
    /\ Frame

JoinStage ==
    /\ pc = "join"
    /\ Invoke(files, "join", bs_cb_mesh_1, "rm_hemispheres")
    /\ Frame

\* os.remove raises when the path does not exist; the first os.remove that
\* raises ends the function.
Remove(paths, next) ==
    \E s \in Completions(files, {paths[i] : i \in 1..Len(paths)}) :
        LET bad  == {i \in 1..Len(paths) : ~isfile(s, paths[i])}
            upto == IF bad = {} THEN Len(paths)
                    ELSE (CHOOSE i \in bad : \A j \in bad : i <= j) - 1
            gone == SubSeq(paths, 1, upto)
        IN  /\ files' = Deleted(s, {gone[i] : i \in 1..Len(gone)})
            /\ seen' = Observed(s)
            /\ removed' = removed \o [i \in 1..Len(gone) |-> [path |-> gone[i], after |-> Len(calls)]]
            /\ pc' = IF bad = {} THEN next ELSE "failed"
            /\ failedAt' = IF bad = {} THEN failedAt ELSE "os.remove"
            /\ UNCHANGED calls

RemoveHemispheres ==
    /\ pc = "rm_hemispheres"
    /\ IF KeepIntermediates
       THEN Skip(files, "white")
       ELSE Remove(<<"right_cerebrum_mesh", "left_cerebrum_mesh">>, "white")
    /\ Frame

WhiteStage ==
    /\ pc = "white"
    /\ \E s \in Resolve(files, [c \in Completions(files, {"white_mesh"}) |-> NeedWhite(c)]) :
        IF NeedWhite(s) THEN Invoke(s, "white", bs_cb_mesh_2, "rm_cerebrum")
        ELSE Skip(s, "white_cut")
    /\ Frame

RemoveCerebrum ==
    /\ pc = "rm_cerebrum"
    /\ IF KeepIntermediates
       THEN Skip(files, "white_cut")
       ELSE Remove(<<"cerebrum_mesh">>, "white_cut")
    /\ Frame

WhiteCutStage ==
    /\ pc = "white_cut"
    /\ \E s \in Resolve(files, [c \in Completions(files, {"right_white_mesh", "left_white_mesh"}) |-> NeedWhiteCut(c)]) :
        IF NeedWhiteCut(s) THEN Invoke(s, "white_cut", "-", "pial") ELSE Skip(s, "pial")
    /\ Frame

PialStage ==
    /\ pc = "pial"
    /\ \E s \in Resolve(files, [c \in Completions(files, {"pial_mesh"}) |-> NeedPial(c)]) :
        IF NeedPial(s) THEN Invoke(s, "pial", bs_cb_mesh_2, "pial_cut")
        ELSE Skip(s, "pial_cut")
    /\ Frame

PialCutStage ==
    /\ pc = "pial_cut"
    /\ \E s \in Resolve(files, [c \in Completions(files, {"right_pial_mesh", "left_pial_mesh"}) |-> NeedPialCut(c)]) :
        IF NeedPialCut(s) THEN Invoke(s, "pial_cut", "-", "done") ELSE Skip(s, "done")
    /\ Frame

recon_neonatal_cortex ==
    \/ BrainStage
    \/ BsCbStage
    \/ CortexGate
    \/ RightStage
    \/ LeftStage
    \/ JoinStage
    \/ RemoveHemispheres
    \/ WhiteStage
    \/ RemoveCerebrum
    \/ WhiteCutStage
    \/ PialStage
    \/ PialCutStage

(***************************************************************************)
(* The executor called on one session, and called again with the same      *)
(* arguments after it returned or raised.                                  *)
(***************************************************************************)
Switches ==
    {[with_brain_mesh |-> b, with_bs_cb_mesh |-> c,
      with_white_mesh |-> NormWhite(w, p), with_pial_mesh |-> NormPial(w, p),
      join_bs_cb_mesh |-> j, cut |-> x, force |-> f] :
        b \in BOOLEAN, c \in BOOLEAN, w \in BOOLEAN, p \in BOOLEAN,
        j \in BOOLEAN, x \in BOOLEAN, f \in BOOLEAN}

NoRun == [outcome |-> "none", failedAt |-> "none", calls |-> << >>]

NoFiles == [a \in Paths |-> "U"]

\* A session directory whose optional input images exist; the output
\* artifacts are in any state.
SessionFiles == [a \in Paths |-> IF a \in OptionalInputs THEN "P" ELSE "U"]

NoArgs ==
    [brain |-> FALSE, white |-> TRUE, pial |-> TRUE, force |-> FALSE, cut |-> TRUE,
     check |-> TRUE, pial_outside_white |-> FALSE,
     debug |-> 0, queue |-> FALSE, sessions |-> << >>]

NoInfo == [subject_id |-> << >>, session_id |-> << >>, session |-> << >>]

NoCsv == [state |-> "unread", fields |-> {}, rows |-> << >>]

InitRun ==
    /\ files = SessionFiles
    /\ seen = SessionFiles
    /\ calls = << >>
    /\ removed = << >>
    /\ failedAt = "none"
    /\ run = 1
    /\ files0 = files
    /\ prev = NoRun

Init ==
    /\ InitRun
    /\ sw \in Switches
    /\ debug \in 0..MaxDebug
    /\ pc = "brain"
    /\ args = NoArgs
    /\ py3 = FALSE
    /\ sessions = << >>
    /\ k = 1
    /\ failed = 0
    /\ processed = << >>
    /\ status = 0
    /\ info = NoInfo
    /\ jobs = << >>
    /\ csvfile = NoCsv
    /\ mpc = "call"

Reinvoke ==
    /\ mpc = "call"
    /\ pc \in {"done", "failed"}
    /\ run < MaxRuns
    /\ run' = run + 1
    /\ prev' = [outcome |-> pc, failedAt |-> failedAt, calls |-> calls]
    /\ files0' = files
    /\ seen' = files
    /\ pc' = "brain"
    /\ calls' = << >>
    /\ removed' = << >>
    /\ failedAt' = "none"
    /\ UNCHANGED <<files, sw, debug, mainVars>>

Next == recon_neonatal_cortex \/ Reinvoke

Spec == Init /\ [][Next]_vars

(***************************************************************************)
(* One call of the executor on a session directory in any state, the       *)
(* optional input images included.                                         *)
(***************************************************************************)
InitOnce ==
    /\ files = NoFiles
    /\ seen = NoFiles
    /\ files0 = NoFiles
    /\ calls = << >>
    /\ removed = << >>
    /\ failedAt = "none"
    /\ run = 1
    /\ prev = NoRun
    /\ sw \in Switches
    /\ debug \in 0..MaxDebug
    /\ pc = "brain"
    /\ args = NoArgs
    /\ py3 = FALSE
    /\ sessions = << >>
    /\ k = 1
    /\ failed = 0
    /\ processed = << >>
    /\ status = 0
    /\ info = NoInfo
    /\ jobs = << >>
    /\ csvfile = NoCsv
    /\ mpc = "call"

NextOnce == recon_neonatal_cortex

SpecOnce == InitOnce /\ [][NextOnce]_vars

(***************************************************************************)
(* The executor called again and again on one session, with any arguments  *)
(* and any retention level each time, starting on a session directory that *)
(* holds the input files and no output artifact.                           *)
(***************************************************************************)
FreshSession == [a \in Paths |-> IF a \in OptionalInputs THEN "P" ELSE "M"]

InitRuns ==
    /\ files = FreshSession
    /\ seen = FreshSession
    /\ files0 = FreshSession
    /\ calls = << >>
    /\ removed = << >>
    /\ failedAt = "none"
    /\ run = 1
    /\ prev = NoRun
    /\ sw \in Switches
    /\ debug \in 0..MaxDebug
    /\ pc = "brain"
    /\ args = NoArgs
    /\ py3 = FALSE
    /\ sessions = << >>
    /\ k = 1
    /\ failed = 0
    /\ processed = << >>
    /\ status = 0
    /\ info = NoInfo
    /\ jobs = << >>
    /\ csvfile = NoCsv
    /\ mpc = "call"

\* The defaults of the keyword parameters, lines 90-94.
Defaults ==
    [with_brain_mesh |-> FALSE, with_bs_cb_mesh |-> TRUE,
     with_white_mesh |-> TRUE, with_pial_mesh |-> TRUE,
     join_bs_cb_mesh |-> FALSE, cut |-> TRUE, force |-> FALSE]

\* The call is over, by return or by exception; only the files stay.
ReturnToCaller ==
    /\ mpc = "call"
    /\ pc \in {"done", "failed"}
    /\ pc' = "idle"
    /\ sw' = Defaults
    /\ debug' = 0
    /\ calls' = << >>
    /\ removed' = << >>
    /\ failedAt' = "none"
    /\ prev' = NoRun
    /\ files0' = files
    /\ seen' = files
    /\ UNCHANGED <<files, run, mainVars>>

InvokeAny ==
    /\ mpc = "call"
    /\ pc = "idle"
    /\ run < MaxRuns
    /\ run' = run + 1
    /\ sw' \in Switches
    /\ debug' \in 0..MaxDebug
    /\ pc' = "brain"
    /\ UNCHANGED <<files, calls, removed, failedAt, files0, seen, prev, mainVars>>

NextRuns == recon_neonatal_cortex \/ ReturnToCaller \/ InvokeAny

SpecRuns == InitRuns /\ [][NextRuns]_vars

(***************************************************************************)
(* The executor called with with_brain_mesh=False, and called once more    *)
(* with with_brain_mesh=True and otherwise the same arguments on a session *)
(* directory in the state in which the first call found its own.           *)
(***************************************************************************)
InitBrain == Init /\ ~sw.with_brain_mesh

RerunWithBrain ==
    /\ mpc = "call"
    /\ pc \in {"done", "failed"}
    /\ run = 1
    /\ run' = run + 1
    /\ prev' = [outcome |-> pc, failedAt |-> failedAt, calls |-> calls]
    /\ sw' = [sw EXCEPT !.with_brain_mesh = TRUE]
    /\ files' = seen
    /\ files0' = seen
    /\ pc' = "brain"
    /\ calls' = << >>
    /\ removed' = << >>
    /\ failedAt' = "none"
    /\ UNCHANGED <<seen, debug, mainVars>>

NextBrain == recon_neonatal_cortex \/ RerunWithBrain

SpecBrain == InitBrain /\ [][NextBrain]_vars

(***************************************************************************)
(* The script: option parsing (lines 281-318) and the session loop (lines  *)
(* 343-394).                                                               *)
(***************************************************************************)
ArgSets ==
    {[brain |-> b, white |-> NormWhite(w, p), pial |-> NormPial(w, p),
      force |-> f, cut |-> x, check |-> TRUE, pial_outside_white |-> FALSE,
      debug |-> d, queue |-> q, sessions |-> << >>] :
        b \in BOOLEAN, w \in BOOLEAN, p \in BOOLEAN, f \in BOOLEAN,
        x \in BOOLEAN, d \in 0..MaxDebug, q \in BOOLEAN}

(***************************************************************************)
(* Session names.  A string is a sequence of characters.                   *)
(***************************************************************************)
Alphabet == {"0", "-"}

Strings(n) == UNION {[1..m -> Alphabet] : m \in 0..n}

Tokens == Strings(MaxLen)

\* Line 345, re.match('^(.*)-([^-]+)$', session): the places of the hyphen
\* at which the pattern matches, the hyphen being followed by one or more
\* characters none of which is a hyphen up to the end of the string.
MatchAt(session) ==
    {i \in 1..Len(session) :
        /\ session[i] = "-"
        /\ i < Len(session)
        /\ \A j \in (i + 1)..Len(session) : session[j] # "-"}

\* Faulty variant: the default session id is forgotten.
ParseSession_nodefault(session) ==
    IF MatchAt(session) # {}
    THEN LET i == CHOOSE i \in MatchAt(session) : \A j \in MatchAt(session) : j <= i
         IN  [subject_id |-> SubSeq(session, 1, i - 1),
              session_id |-> SubSeq(session, i + 1, Len(session)),
              session |-> session]
    ELSE [subject_id |-> session, session_id |-> << >>, session |-> session \o <<"-">>]

\* Lines 345-352; the greedy (.*) takes the longest prefix.
ParseSession(session) ==
    IF MatchAt(session) # {}
    THEN LET i == CHOOSE i \in MatchAt(session) : \A j \in MatchAt(session) : j <= i
         IN  [subject_id |-> SubSeq(session, 1, i - 1),
              session_id |-> SubSeq(session, i + 1, Len(session)),
              session |-> session]
    ELSE [subject_id |-> session, session_id |-> <<"0">>,
          session |-> session \o <<"-", "0">>]

\* Faulty variant: the session id is left out of the directory name.
SessionDir_subject(i) == i.subject_id

\* Line 55: '%(SubjectID)s-%(SessionID)s' under the work directory.
SessionDir(i) == i.subject_id \o <<"-">> \o i.session_id

\* The n-th of the session names given to the script when the names are
\* not what is looked at: "0-0", "00-0", ...
SessionToken(n) == [j \in 1..n |-> "0"] \o <<"-", "0">>

(***************************************************************************)
(* The CSV file of lines 320-340.  csv.DictReader gives every row the      *)
(* columns of the header line.                                             *)
(***************************************************************************)
Columns == {"SubjectID", "SessionID"}

Values == {<<c>> : c \in Alphabet}

MissingCsv == [state |-> "missing", fields |-> {}, rows |-> << >>]

CsvFiles ==
    UNION {{[state |-> "read", fields |-> f, rows |-> r] :
               r \in UNION {[1..n -> [f -> Values]] : n \in 0..MaxRows}} :
           f \in SUBSET Columns}

\* Lines 335-338.
FormatRow(fields, row) ==
    IF "SessionID" \in fields
    THEN row["SubjectID"] \o <<"-">> \o row["SessionID"]
    ELSE row["SubjectID"]

\* '{SubjectID}'.format(**row) raises KeyError on a row without the column.
CsvRaises(c) == c.rows # << >> /\ "SubjectID" \notin c.fields

\* Faulty variant: the script goes on without a session source.
Resolution_goes_on(given, c) ==
    IF c.state = "read" /\ ~CsvRaises(c)
    THEN [ok |-> TRUE,
          sessions |-> [i \in 1..Len(c.rows) |-> FormatRow(c.fields, c.rows[i])]]
    ELSE [ok |-> TRUE, sessions |-> given]

\* Lines 320-340 for args.sessions = given, with c found at the path of the
\* CSV file: the default path when no name is given, else the one name.
Resolution(given, c) ==
    IF given = << >> /\ c.state = "missing"
    THEN [ok |-> FALSE, sessions |-> << >>]
    ELSE IF c.state = "read"
         THEN IF CsvRaises(c)
              THEN [ok |-> FALSE, sessions |-> << >>]
              ELSE [ok |-> TRUE,
                    sessions |-> [i \in 1..Len(c.rows) |-> FormatRow(c.fields, c.rows[i])]]
         ELSE [ok |-> TRUE, sessions |-> given]

(***************************************************************************)
(* sbatch, lines 241-274.                                                  *)
(***************************************************************************)
Word(opt, val) == [opt |-> opt, val |-> val]

Flag(on, opt) == IF on THEN <<Word(opt, << >>)>> ELSE << >>

\* Faulty variant: --nocut is not handed on.
Script_cut(a, session) ==
    [i \in 1..a.debug |-> Word("-d", << >>)]
        \o <<Word("--session", session)>>
        \o Flag(a.brain, "--brain") \o Flag(a.white, "--white") \o Flag(a.pial, "--pial")
        \o Flag(a.force, "--force")
        \o Flag(~a.check, "--nocheck")
        \o Flag(a.pial_outside_white, "--ensure-pial-is-outside-white-surface")

\* Lines 259-268: the words of the command line of the job script after
\* "exec python3 <script>", without --threads, -v, --work-dir, --config and
\* --section, which only carry values over.
Script(a, session) ==
    [i \in 1..a.debug |-> Word("-d", << >>)]
        \o <<Word("--session", session)>>
        \o Flag(a.brain, "--brain") \o Flag(a.white, "--white") \o Flag(a.pial, "--pial")
        \o Flag(a.force, "--force") \o Flag(~a.cut, "--nocut")
        \o Flag(~a.check, "--nocheck")
        \o Flag(a.pial_outside_white, "--ensure-pial-is-outside-white-surface")

\* Lines 282-297: the defaults of the options.
ParserDefaults ==
    [brain |-> FALSE, white |-> FALSE, pial |-> FALSE, force |-> FALSE, cut |-> TRUE,
     check |-> TRUE, pial_outside_white |-> FALSE,
     debug |-> 0, queue |-> FALSE, sessions |-> << >>]

\* Lines 285-297: what each option does to the namespace; --session is
\* taken by argparse for --sessions, the one option it abbreviates.
Store(a, w) ==
    CASE w.opt = "--brain"    -> [a EXCEPT !.brain = TRUE]
      [] w.opt = "--white"    -> [a EXCEPT !.white = TRUE]
      [] w.opt = "--pial"     -> [a EXCEPT !.pial = TRUE]
      [] w.opt = "--force"    -> [a EXCEPT !.force = TRUE]
      [] w.opt = "--nocut"    -> [a EXCEPT !.cut = FALSE]
      [] w.opt = "--nocheck"  -> [a EXCEPT !.check = FALSE]
      [] w.opt = "--ensure-pial-is-outside-white-surface" ->
                                 [a EXCEPT !.pial_outside_white = TRUE]
      [] w.opt = "-d"         -> [a EXCEPT !.debug = @ + 1]
      [] w.opt = "-q"         -> [a EXCEPT !.queue = TRUE]
      [] w.opt = "--session"  -> [a EXCEPT !.sessions = <<w.val>>]

RECURSIVE ParseWords(_, _)
ParseWords(ws, a) == IF ws = << >> THEN a ELSE ParseWords(Tail(ws), Store(a, Head(ws)))

\* Lines 299-305.
ParseArgs(ws) ==
    LET a == ParseWords(ws, ParserDefaults)
    IN  [a EXCEPT !.white = NormWhite(a.white, a.pial), !.pial = NormPial(a.white, a.pial)]

\* What the scheduler prints: an acknowledgement with a job id, and one
\* without.
SubmittedBatchJob == "Submitted batch job "

Acks == {<<SubmittedBatchJob, "4", "2", "\n">>, <<SubmittedBatchJob, "\n">>}

DigitChars == <<"0", "1", "2", "3", "4", "5", "6", "7", "8", "9">>

IsDigit(c) == \E d \in 1..10 : DigitChars[d] = c

DigitValue(c) == (CHOOSE d \in 1..10 : DigitChars[d] = c) - 1

RECURSIVE Decimal(_)
Decimal(ds) ==
    IF ds = << >> THEN 0
    ELSE 10 * Decimal(SubSeq(ds, 1, Len(ds) - 1)) + DigitValue(ds[Len(ds)])

\* Line 272, re.match('Submitted batch job ([0-9]+)', out).
Matched(out) == Len(out) >= 2 /\ out[1] = SubmittedBatchJob /\ IsDigit(out[2])

\* m.group(1): the longest run of digits after the words.
Group(out) ==
    LET n == CHOOSE n \in 1..(Len(out) - 1) :
                 /\ \A j \in 2..(n + 1) : IsDigit(out[j])
                 /\ (n + 1 = Len(out) \/ ~IsDigit(out[n + 2]))
    IN  SubSeq(out, 2, n + 1)

\* Lines 376-382: the keyword arguments the loop passes; the parameters it
\* does not name keep the defaults of lines 89-94.
MainCall ==
    [with_brain_mesh |-> args.brain, with_bs_cb_mesh |-> TRUE,
     with_white_mesh |-> args.white, with_pial_mesh |-> args.pial,
     join_bs_cb_mesh |-> FALSE, cut |-> TRUE, force |-> FALSE]

\* Line 384.
CountFailure(n) == n + 1

\* Line 317.
NeoctxDebug == IF args.debug > 0 THEN args.debug ELSE 0

\* Faulty variant: off by one.
ExitStatus_offbyone(n) == IF n > 1 THEN 1 ELSE 0

\* Lines 393-394: sys.exit(1) when a session failed; the script ends
\* normally otherwise.
ExitStatus(n) == IF n > 0 THEN 1 ELSE 0

\* Lines 270-274: the exception for a non-zero return code; re.match of a
\* str pattern on the bytes a Python 3 pipe returns raises TypeError.
SbatchRaises(returncode, bytesOut) == returncode # 0 \/ bytesOut

\* Lines 272-274: what sbatch returns when it returns.
SbatchValue(returncode, out, bytesOut) ==
    IF SbatchRaises(returncode, bytesOut)
    THEN [kind |-> "raised", id |-> 0, out |-> << >>]
    ELSE IF Matched(out)
         THEN [kind |-> "id", id |-> Decimal(Group(out)), out |-> << >>]
         ELSE [kind |-> "raw", id |-> 0, out |-> out]

InitMain ==
    /\ InitRun
    /\ args \in ArgSets
    /\ py3 \in BOOLEAN
    /\ sessions \in {[i \in 1..n |-> SessionToken(i)] : n \in 0..MaxSessions}
    /\ sw = MainCall
    /\ debug = NeoctxDebug
    /\ pc = "idle"
    /\ k = 1
    /\ failed = 0
    /\ processed = << >>
    /\ status = 0
    /\ info = NoInfo
    /\ jobs = << >>
    /\ csvfile = NoCsv
    /\ mpc = "loop"

\* Lines 320-340: the sessions are taken from the command line or read
\* from the CSV file; a missing default file ends the script with status 1
\* (line 325), and so does the KeyError nobody catches.
ResolveSessions ==
    /\ mpc = "resolve"
    /\ \E c \in (IF args.sessions = << >> THEN {MissingCsv} ELSE {NoCsv})
                 \cup (IF Len(args.sessions) <= 1 THEN CsvFiles ELSE {}) :
        LET r == Resolution(args.sessions, c)
        IN  /\ csvfile' = c
            /\ sessions' = r.sessions
            /\ mpc' = IF r.ok THEN "loop" ELSE "exit"
            /\ status' = IF r.ok THEN status ELSE 1
    /\ UNCHANGED <<execVars, args, py3, k, failed, processed, info, jobs>>

\* Lines 344-366 and 375-376: the next session, run in-process.  The paths
\* of a session lie in its own directory (line 55), which the run finds in
\* any state.
SessionRecon ==
    /\ mpc = "loop"
    /\ k <= Len(sessions)
    /\ ~args.queue
    /\ mpc' = "recon"
    /\ sw' = MainCall
    /\ pc' = "brain"
    /\ files' = SessionFiles
    /\ files0' = SessionFiles
    /\ seen' = SessionFiles
    /\ calls' = << >>
    /\ removed' = << >>
    /\ failedAt' = "none"
    /\ info' = ParseSession(sessions[k])
    /\ UNCHANGED <<debug, run, prev, args, py3, sessions, k, failed, processed, status>>
    /\ UNCHANGED <<jobs, csvfile>>

\* Lines 368-373 and 241-274: the next session, submitted as a batch job.
SessionSbatch ==
    /\ mpc = "loop"
    /\ k <= Len(sessions)
    /\ args.queue
    /\ info' = ParseSession(sessions[k])
    /\ \E returncode \in 0..1 : \E out \in (IF returncode = 0 THEN Acks ELSE {<< >>}) :
        LET returned == SbatchValue(returncode, out, py3)
            raised == returned.kind = "raised"
        IN  /\ failed' = IF raised THEN CountFailure(failed) ELSE failed
            /\ processed' = Append(processed, [session |-> sessions[k], raised |-> raised])
            /\ jobs' = Append(jobs, [session |-> info'.session,
                                     script |-> Script(args, info'.session),
                                     returncode |-> returncode,
                                     out |-> out,
                                     returned |-> returned,
                                     status |-> IF returncode = 0 THEN "queued" ELSE "rejected",
                                     jargs |-> NoArgs,
                                     jinfo |-> NoInfo])
    /\ k' = k + 1
    /\ UNCHANGED <<execVars, args, py3, sessions, status, mpc, csvfile>>

\* A job the scheduler accepted starts: lines 259-260 run the script, which
\* parses its own command line (lines 281-305) and its one session (lines
\* 344-352), and being given no queue runs the executor in its process.
JobStart ==
    /\ \E j \in 1..Len(jobs) :
        /\ jobs[j].status = "queued"
        /\ LET a == ParseArgs(jobs[j].script)
           IN  jobs' = [jobs EXCEPT ![j].status = "running",
                                    ![j].jargs = a,
                                    ![j].jinfo = ParseSession(a.sessions[1])]
    /\ UNCHANGED <<execVars, args, py3, sessions, k, failed, processed, status, info,
                   csvfile, mpc>>

\* A running job ends.
JobEnd ==
    /\ \E j \in 1..Len(jobs) :
        /\ jobs[j].status = "running"
        /\ jobs' = [jobs EXCEPT ![j].status = "finished"]
    /\ UNCHANGED <<execVars, args, py3, sessions, k, failed, processed, status, info,
                   csvfile, mpc>>

\* recon_neonatal_cortex returned: the loop goes on.
SessionReturn ==
    /\ mpc = "recon"
    /\ pc = "done"
    /\ processed' = Append(processed, [session |-> sessions[k], raised |-> FALSE])
    /\ k' = k + 1
    /\ mpc' = "loop"
    /\ pc' = "idle"
    /\ UNCHANGED <<files, sw, debug, calls, removed, failedAt, run, files0, seen, prev>>
    /\ UNCHANGED <<args, py3, sessions, failed, status, info, jobs, csvfile>>

\* Lines 383-392: the exception of recon_neonatal_cortex is caught.
SessionExcept ==
    /\ mpc = "recon"
    /\ pc = "failed"
    /\ failed' = CountFailure(failed)
    /\ processed' = Append(processed, [session |-> sessions[k], raised |-> TRUE])
    /\ k' = k + 1
    /\ mpc' = "loop"
    /\ pc' = "idle"
    /\ UNCHANGED <<files, sw, debug, calls, removed, failedAt, run, files0, seen, prev>>
    /\ UNCHANGED <<args, py3, sessions, status, info, jobs, csvfile>>

\* Lines 393-394.
Exit ==
    /\ mpc = "loop"
    /\ k > Len(sessions)
    /\ status' = ExitStatus(failed)
    /\ mpc' = "exit"
    /\ UNCHANGED <<execVars, args, py3, sessions, k, failed, processed, info, jobs, csvfile>>

NextMain ==
    \/ SessionRecon
    \/ SessionSbatch
    \/ recon_neonatal_cortex
    \/ SessionReturn
    \/ SessionExcept
    \/ Exit

SpecMain == InitMain /\ [][NextMain]_vars

\* The names given with --sessions, one character shorter than the names
\* looked at alone.
ListTokens == Strings(MaxLen - 1)

\* The script from line 320 on, given no session or one name, the cases in
\* which a CSV file may be read.
InitResolve ==
    /\ InitRun
    /\ \E q \in BOOLEAN :
        \E given \in {<< >>} \cup {<<t>> : t \in ListTokens} :
            args = [ParserDefaults EXCEPT !.white = TRUE, !.pial = TRUE,
                                          !.queue = q, !.sessions = given]
    /\ py3 \in BOOLEAN
    /\ sessions = << >>
    /\ sw = MainCall
    /\ debug = NeoctxDebug
    /\ pc = "idle"
    /\ k = 1
    /\ failed = 0
    /\ processed = << >>
    /\ status = 0
    /\ info = NoInfo
    /\ jobs = << >>
    /\ csvfile = NoCsv
    /\ mpc = "resolve"

NextResolve ==
    \/ ResolveSessions
    \/ SessionRecon
    \/ SessionSbatch
    \/ recon_neonatal_cortex
    \/ SessionReturn
    \/ SessionExcept
    \/ Exit

SpecResolve == InitResolve /\ [][NextResolve]_vars

\* The sessions of a list submitted as batch jobs, and the jobs.
TokenLists == UNION {[1..n -> ListTokens] : n \in 0..MaxTokens}

InitQueue ==
    /\ InitRun
    /\ \E given \in TokenLists :
            args = [ParserDefaults EXCEPT !.white = TRUE, !.pial = TRUE,
                                          !.queue = TRUE, !.sessions = given]
    /\ py3 \in BOOLEAN
    /\ sessions = << >>
    /\ sw = MainCall
    /\ debug = NeoctxDebug
    /\ pc = "idle"
    /\ k = 1
    /\ failed = 0
    /\ processed = << >>
    /\ status = 0
    /\ info = NoInfo
    /\ jobs = << >>
    /\ csvfile = NoCsv
    /\ mpc = "resolve"

NextQueue ==
    \/ ResolveSessions
    \/ SessionSbatch
    \/ JobStart
    \/ JobEnd
    \/ Exit

SpecQueue == InitQueue /\ [][NextQueue]_vars

\* One session submitted as a batch job under any options.
SbatchArgSets ==
    {[brain |-> b, white |-> NormWhite(w, p), pial |-> NormPial(w, p),
      force |-> f, cut |-> x, check |-> c, pial_outside_white |-> o,
      debug |-> d, queue |-> TRUE, sessions |-> <<t>>] :
        b \in BOOLEAN, w \in BOOLEAN, p \in BOOLEAN, f \in BOOLEAN,
        x \in BOOLEAN, c \in BOOLEAN, o \in BOOLEAN, d \in 0..MaxDebug, t \in Tokens}

InitSbatch ==
    /\ InitRun
    /\ args \in SbatchArgSets
    /\ py3 \in BOOLEAN
    /\ sessions = args.sessions
    /\ sw = MainCall
    /\ debug = NeoctxDebug
    /\ pc = "idle"
    /\ k = 1
    /\ failed = 0
    /\ processed = << >>
    /\ status = 0
    /\ info = NoInfo
    /\ jobs = << >>
    /\ csvfile = NoCsv
    /\ mpc = "loop"

NextSbatch ==
    \/ SessionSbatch
    \/ JobStart
    \/ Exit

SpecSbatch == InitSbatch /\ [][NextSbatch]_vars

(***************************************************************************)
(* Properties.                                                             *)
(***************************************************************************)
Ran(stage) == \E i \in 1..Len(calls) : calls[i].stage = stage

Count(stage) == Cardinality({i \in 1..Len(calls) : calls[i].stage = stage})

Succeeded(stage) == Ran(stage) /\ failedAt # stage

\* The call made by this step, if it makes one.
Calling(stage) == Len(calls') = Len(calls) + 1 /\ calls'[Len(calls')].stage = stage

RemovedPaths == {removed[i].path : i \in 1..Len(removed)}

\* The stages a call asks for through its switches.
Requested(stage) ==
    CASE stage = "brain"     -> sw.with_brain_mesh
      [] stage = "bs_cb"     -> sw.with_bs_cb_mesh
      [] stage = "white_cut" -> sw.cut
      [] stage = "pial"      -> sw.with_pial_mesh
      [] stage = "pial_cut"  -> sw.cut /\ sw.with_pial_mesh
      [] OTHER               -> TRUE

\* The output artifacts a call asks for through its switches.
RequestedOutputs ==
    UNION {IF Requested(st) THEN Outputs(st) ELSE {} :
              st \in {"brain", "bs_cb", "white", "white_cut", "pial", "pial_cut"}}

\* The paths whose existence lets a stage be skipped.
GatedOutputs(stage) == Outputs(stage) \ {"internal_mesh"}

\* The current run is a repeated run, and the run before it ended so.
SecondRunAfter(outcome) == mpc = "call" /\ run > 1 /\ prev.outcome = outcome

\* C1: a second run of the executor with the same switches and force=false,
\* after a first run that returned, calls no stage, deletes nothing, never
\* raises, and leaves every artifact present or missing as the first run
\* left it.
C1_Idempotent ==
    (SecondRunAfter("done") /\ ~sw.force) =>
        /\ calls = << >>
        /\ removed = << >>
        /\ pc # "failed"
        /\ \A a \in Artifacts : files0[a] # "U" => files[a] = files0[a]

\* C1 witness: the second run has returned after a first run that called all
\* nine stages and deleted the intermediate meshes.
C1_Witness ==
    /\ SecondRunAfter("done") /\ ~sw.force /\ pc = "done"
    /\ Len(prev.calls) = 9
    /\ files["cerebrum_mesh"] = "M"

\* C2: with force=true a run that returns has called every stage its switches
\* ask for exactly once, whatever files existed when it started.
C2_ForceRunsAll ==
    (mpc = "call" /\ sw.force /\ pc = "done") =>
        \A st \in Stages : Requested(st) => Count(st) = 1

\* C2 witness: a forced run returns after nine calls although the outputs of
\* an earlier run were all in place when it started.
C2_Witness ==
    /\ mpc = "call" /\ sw.force /\ pc = "done" /\ run > 1
    /\ Len(calls) = 9
    /\ \A a \in RequestedOutputs : files0[a] = "P"

\* C3: join is only called while both hemisphere meshes exist, white fitting
\* only while cerebrum_mesh exists, pial fitting only while white_mesh exists.
C3_DependencyOrder ==
    [][/\ Calling("join") => /\ isfile(files, "right_cerebrum_mesh")
                             /\ isfile(files, "left_cerebrum_mesh")
       /\ Calling("white") => isfile(files, "cerebrum_mesh")
       /\ Calling("pial") => isfile(files, "white_mesh")]_vars

\* C3 witness: an unforced run that found one hemisphere mesh on disk and
\* built the other has called join, white fitting and pial fitting.
C3_Witness ==
    /\ mpc = "call" /\ ~sw.force /\ pc = "done"
    /\ Ran("join") /\ Ran("white") /\ Ran("pial")
    /\ Ran("left") /\ ~Ran("right")

\* C4: when the script exits, every session of the list has been processed
\* once, in list order; failed counts the sessions that raised; and the exit
\* status is non-zero exactly when failed > 0.
C4_FailureIsolation ==
    mpc = "exit" =>
        /\ Len(processed) = Len(sessions)
        /\ \A i \in 1..Len(sessions) : processed[i].session = sessions[i]
        /\ failed = Cardinality({i \in 1..Len(processed) : processed[i].raised})
        /\ (status # 0) <=> (failed > 0)

\* C4 witness: three sessions run in-process, the second raises, the script
\* exits with failed = 1 and status 1.
C4_Witness ==
    /\ mpc = "exit" /\ ~args.queue /\ Len(sessions) = 3
    /\ ~processed[1].raised /\ processed[2].raised /\ ~processed[3].raised
    /\ failed = 1 /\ status = 1

\* C5: once a stage has raised, the run is over: the failing call is the last
\* call of the run, no file was deleted after it was made, every output of an
\* earlier stage of the run that the regular cleanup had not already deleted
\* is still present; a failed join leaves both hemisphere meshes, a failed
\* white fitting leaves cerebrum_mesh.
C5_AbortOnFailure ==
    (failedAt \in Stages) =>
        /\ pc = "failed"
        /\ calls[Len(calls)].stage = failedAt
        /\ \A i \in 1..Len(removed) : removed[i].after < Len(calls)
        /\ \A i \in 1..(Len(calls) - 1) :
              \A a \in Outputs(calls[i].stage) \ RemovedPaths : isfile(files, a)
        /\ failedAt = "join" => /\ isfile(files, "right_cerebrum_mesh")
                                /\ isfile(files, "left_cerebrum_mesh")
        /\ failedAt = "white" => isfile(files, "cerebrum_mesh")

\* C5 witness: at retention level 0, white fitting raised after the hemisphere
\* and join stages of the same run.
C5_Witness ==
    /\ pc = "failed" /\ failedAt = "white" /\ debug = 0
    /\ Ran("right") /\ Ran("left") /\ Ran("join")
    /\ removed # << >>

\* C6 as stated: after a run with force=false that failed at a stage, a second
\* run with the same switches calls that stage again, calls no stage whose
\* output was already on disk, and, when it returns, has every requested
\* output on disk.
C6_ResumeAsStated ==
    (SecondRunAfter("failed") /\ prev.failedAt \in Stages /\ ~sw.force) =>
        /\ pc = "done" => Ran(prev.failedAt)
        /\ \A i \in 1..Len(calls) :
              \E a \in GatedOutputs(calls[i].stage) : files0[a] # "P"
        /\ pc = "done" => \A a \in RequestedOutputs : isfile(files, a)

\* C6 amended: the second run calls the failed stage again exactly when the
\* failed call did not leave all of the stage's gated outputs on disk; it
\* calls no stage whose outputs were already on disk, and, when it returns,
\* has every requested output on disk.
C6_Resume ==
    (SecondRunAfter("failed") /\ prev.failedAt \in Stages /\ ~sw.force) =>
        /\ pc = "done" =>
              (Ran(prev.failedAt) <=>
                  \E a \in GatedOutputs(prev.failedAt) : files0[a] # "P")
        /\ \A i \in 1..Len(calls) :
              \E a \in GatedOutputs(calls[i].stage) : files0[a] # "P"
        /\ pc = "done" => \A a \in RequestedOutputs : isfile(files, a)

\* C6 witness: white fitting raised in the first run and left no file; the
\* second run has returned after calling white fitting but not join.
C6_Witness ==
    /\ SecondRunAfter("failed") /\ prev.failedAt = "white" /\ ~sw.force
    /\ pc = "done"
    /\ Ran("white") /\ ~Ran("join")
    /\ \E i \in 1..Len(prev.calls) : prev.calls[i].stage = "join"

\* The intermediate meshes are gone once their consumer has returned and the
\* os.remove calls that follow it have been made.
CleanedUp ==
    /\ (Succeeded("join") /\ pc # "rm_hemispheres" /\ failedAt # "os.remove") =>
          /\ files["right_cerebrum_mesh"] = "M"
          /\ files["left_cerebrum_mesh"] = "M"
    /\ (Succeeded("white") /\ pc # "rm_cerebrum" /\ failedAt # "os.remove") =>
          files["cerebrum_mesh"] = "M"

\* C7: at retention level 0 the hemisphere meshes are absent after a join
\* that returned and cerebrum_mesh is absent after a white fitting that
\* returned; at level >= 1 the executor deletes nothing and no artifact that
\* is present ever stops being present.
C7_CleanupPolicy ==
    [][/\ (mpc = "call" /\ debug = 0) => CleanedUp'
       /\ (mpc = "call" /\ debug >= 1) =>
             /\ removed' = << >>
             /\ \A a \in Artifacts : isfile(files, a) => isfile(files', a)]_vars

\* C7 witness: a run at level 0 has returned after join and white fitting,
\* with the three intermediate meshes deleted.
C7_Witness ==
    /\ mpc = "call" /\ debug = 0 /\ pc = "done"
    /\ Ran("join") /\ Ran("white")
    /\ RemovedPaths = {"right_cerebrum_mesh", "left_cerebrum_mesh", "cerebrum_mesh"}

\* C8: the merge mesh given to join and the guide mesh given to white and
\* pial fitting are never both non-null; with join_bs_cb_mesh the guide mesh
\* is null in every fitting call, without it the merge mesh is null in every
\* join call.
C8_BsCbRoles ==
    \A i \in 1..Len(calls) :
        /\ (calls[i].stage = "join" /\ ~sw.join_bs_cb_mesh) => calls[i].bs_cb_mesh = None
        /\ (calls[i].stage \in {"white", "pial"} /\ sw.join_bs_cb_mesh) =>
              calls[i].bs_cb_mesh = None
        /\ \A j \in 1..Len(calls) :
              (calls[i].stage = "join" /\ calls[j].stage \in {"white", "pial"}) =>
                  (calls[i].bs_cb_mesh = None \/ calls[j].bs_cb_mesh = None)

\* C8 witness: with both switches on, join got the mesh and both fittings ran.
C8_Witness ==
    /\ sw.with_bs_cb_mesh /\ sw.join_bs_cb_mesh /\ pc = "done"
    /\ Ran("white") /\ Ran("pial")
    /\ \E i \in 1..Len(calls) :
          calls[i].stage = "join" /\ calls[i].bs_cb_mesh = "bs_cb_mesh"

\* The stages the command line asks for.
RequestedByArgs(stage) ==
    CASE stage = "brain"     -> args.brain
      [] stage = "white_cut" -> args.cut
      [] stage = "pial"      -> args.pial
      [] stage = "pial_cut"  -> args.cut /\ args.pial
      [] OTHER               -> TRUE

\* C9: when the script is given --force, a session run in-process that
\* returns has called every requested stage, whether or not its output was
\* already on disk.
C9_ForceFromCommandLine ==
    (mpc = "recon" /\ args.force /\ pc = "done") =>
        \A st \in Stages : RequestedByArgs(st) => Ran(st)

\* C10: when the script is given --nocut, no session run in-process calls a
\* medial-plane cut (the only calls that write the half meshes).
C10_NoCutFromCommandLine ==
    (mpc = "recon" /\ ~args.cut) =>
        /\ ~Ran("white_cut")
        /\ ~Ran("pial_cut")

\* The positions of recon_neonatal_cortex in the order of its text.
PcOrder ==
    <<"brain", "bs_cb", "cortex", "right", "left", "join", "rm_hemispheres",
      "white", "rm_cerebrum", "white_cut", "pial", "pial_cut", "done">>

Pos(p) == CHOOSE i \in 1..Len(PcOrder) : PcOrder[i] = p

\* The run has gone past position p: it is further on, or it raised further on.
Passed(p) ==
    LET at == IF pc = "failed" THEN failedAt ELSE pc
    IN  /\ \E i \in 1..Len(PcOrder) : PcOrder[i] = at
        /\ Pos(at) > Pos(p)

\* C16: a medial-plane cut is only called while internal_mesh, the seam mesh
\* a join writes, is on disk.
C16_CutHasSeam ==
    [][(Calling("white_cut") \/ Calling("pial_cut")) =>
          isfile(files', "internal_mesh")]_vars

\* white_mesh and cerebrum_mesh were both missing when the run started, so
\* that line 157 decides for the hemisphere and join stages.
JoinDue == seen["white_mesh"] = "M" /\ seen["cerebrum_mesh"] = "M"

\* C17: with force=false, join is called exactly when white_mesh and
\* cerebrum_mesh were both missing; the Right (Left) hemisphere stage is
\* called exactly when join is due and right_cerebrum_mesh
\* (left_cerebrum_mesh) was missing; with cerebrum_mesh on disk and
\* white_mesh missing, white fitting is called and no hemisphere or join
\* stage is.  "Exactly when" is read for the runs in which no earlier stage
\* raised.
C17_HemisphereJoinGating ==
    (mpc = "call" /\ ~sw.force /\ CorticalBlock) =>
        /\ Ran("join") => JoinDue
        /\ (JoinDue /\ Passed("join")) => Ran("join")
        /\ Ran("right") => (JoinDue /\ seen["right_cerebrum_mesh"] = "M")
        /\ (JoinDue /\ seen["right_cerebrum_mesh"] = "M" /\ Passed("right")) => Ran("right")
        /\ Ran("left") => (JoinDue /\ seen["left_cerebrum_mesh"] = "M")
        /\ (JoinDue /\ seen["left_cerebrum_mesh"] = "M" /\ Passed("left")) => Ran("left")
        /\ (seen["white_mesh"] = "M" /\ seen["cerebrum_mesh"] = "P") =>
              /\ ~Ran("right") /\ ~Ran("left") /\ ~Ran("join")
              /\ Passed("white") => Ran("white")

\* C17 witness: an unforced run found cerebrum_mesh but no white_mesh and has
\* returned after white fitting, without a hemisphere or join call.
C17_Witness ==
    /\ mpc = "call" /\ ~sw.force /\ pc = "done"
    /\ seen["white_mesh"] = "M" /\ seen["cerebrum_mesh"] = "P"
    /\ Ran("white") /\ ~Ran("join") /\ ~Ran("right") /\ ~Ran("left")

\* C19: every hemisphere call gets corpus_callosum_mask=None when that file
\* is missing and its path when the file exists; every white fitting call
\* gets t1w_image likewise; and the executor raises nothing of its own: a
\* run only fails in a neoctx operation.
C19_PermissiveInputs ==
    /\ \A i \in 1..Len(calls) :
          /\ calls[i].stage \in {"right", "left"} =>
                /\ files["corpus_callosum_mask"] = "M" => calls[i].optional = None
                /\ files["corpus_callosum_mask"] = "P" =>
                      calls[i].optional = "corpus_callosum_mask"
                /\ files["corpus_callosum_mask"] # "U"
          /\ calls[i].stage = "white" =>
                /\ files["t1w_image"] = "M" => calls[i].optional = None
                /\ files["t1w_image"] = "P" => calls[i].optional = "t1w_image"
                /\ files["t1w_image"] # "U"
    /\ pc = "failed" => failedAt \in Stages

\* C19 witness: both optional inputs are missing and the run has returned
\* after hemisphere calls and a white fitting call that got None.
C19_Witness ==
    /\ pc = "done"
    /\ files["t1w_image"] = "M" /\ files["corpus_callosum_mask"] = "M"
    /\ \E i \in 1..Len(calls) : calls[i].stage = "right" /\ calls[i].optional = None
    /\ \E i \in 1..Len(calls) : calls[i].stage = "white" /\ calls[i].optional = None

NotBrain(c) == c.stage # "brain"

\* The calls of a run other than the brain boundary call, in order.
OtherCalls(cs) == SelectSeq(cs, NotBrain)

\* C15: with with_brain_mesh=false the brain boundary operation is never
\* called and brain_mesh stays as it was; the calls of the other operations
\* are those of the run with with_brain_mesh=true on the same initial files,
\* in the same order (up to the call at which either run raised); and where
\* brain_mesh is not on disk, a run that returns has called white fitting
\* when white_mesh was missing or forced, and pial fitting likewise when
\* requested.
C15_DisabledBrainSkip ==
    /\ ~sw.with_brain_mesh =>
          /\ ~Ran("brain")
          /\ files["brain_mesh"] = files0["brain_mesh"]
    /\ run > 1 =>
          LET without == OtherCalls(prev.calls)
              with    == OtherCalls(calls)
          IN  /\ \A i \in 1..Len(with) : i <= Len(without) => with[i] = without[i]
              /\ (pc = "done" /\ prev.outcome = "done") => with = without
              /\ (pc = "done" /\ prev.outcome = "failed") =>
                    Len(without) <= Len(with)
    /\ (pc = "done" /\ ~isfile(files, "brain_mesh")) =>
          /\ (sw.force \/ seen["white_mesh"] = "M") => Ran("white")
          /\ (sw.with_pial_mesh /\ (sw.force \/ seen["pial_mesh"] = "M")) => Ran("pial")

\* C15 witness: both runs have returned; the one without the brain stage
\* made eight calls, the one with it the same eight after the brain call.
C15_Witness ==
    /\ run > 1 /\ pc = "done" /\ prev.outcome = "done"
    /\ Len(prev.calls) = 8 /\ Len(calls) = 9
    /\ calls[1].stage = "brain"
    /\ ~isfile(files0, "white_mesh")

Intermediates == {"right_cerebrum_mesh", "left_cerebrum_mesh", "cerebrum_mesh"}

\* C20 as stated: when a run at retention level 0 with white or pial
\* requested has returned, none of the three intermediate meshes is on
\* disk, whatever earlier runs of the session left.
C20_NoLeftoversAsStated ==
    (debug = 0 /\ CorticalBlock /\ pc = "done") =>
        \A a \in Intermediates : ~isfile(files, a)

\* C20 amended: when such a run has returned, the hemisphere meshes are gone
\* if the run called join, cerebrum_mesh is gone if it called white fitting,
\* and every intermediate mesh on disk was there when the run started.
C20_NoLeftovers ==
    (debug = 0 /\ CorticalBlock /\ pc = "done") =>
        /\ Ran("join") => /\ ~isfile(files, "right_cerebrum_mesh")
                           /\ ~isfile(files, "left_cerebrum_mesh")
        /\ Ran("white") => ~isfile(files, "cerebrum_mesh")
        /\ \A a \in Intermediates : isfile(files, a) => isfile(files0, a)

\* C20 witness: a run at level 0 that started with the cerebrum_mesh of an
\* earlier run and no white_mesh has returned after white fitting, and
\* cerebrum_mesh is gone.
C20_Witness ==
    /\ run > 1 /\ debug = 0 /\ pc = "done"
    /\ isfile(files0, "cerebrum_mesh") /\ ~isfile(files0, "white_mesh")
    /\ Ran("white") /\ ~Ran("join")
    /\ files["cerebrum_mesh"] = "M"

(***************************************************************************)
(* The names of the sessions.                                              *)
(***************************************************************************)
Hyphens(t) == {i \in 1..Len(t) : t[i] = "-"}

LastHyphen(t) == CHOOSE i \in Hyphens(t) : \A j \in Hyphens(t) : j <= i

SplitAtLastHyphen(t, i) ==
    /\ i.subject_id = SubSeq(t, 1, LastHyphen(t) - 1)
    /\ i.session_id = SubSeq(t, LastHyphen(t) + 1, Len(t))

WholeToken(t, i) == i.subject_id = t /\ i.session_id = <<"0">>

\* The name the loop took last.
Taken == sessions[k - 1]

\* C11 as stated: a name with a hyphen is split at its last hyphen, and a
\* name without one is the subject id, with session id "0".
C11_SplitAtLastHyphenAsStated ==
    k > 1 =>
        IF Hyphens(Taken) # {} THEN SplitAtLastHyphen(Taken, info)
                               ELSE WholeToken(Taken, info)

\* C11 amended: a name with a hyphen that does not end in a hyphen is split
\* at its last hyphen; a name without a hyphen, and one that ends in a
\* hyphen, is the subject id as a whole, with session id "0".
C11_SplitAtLastHyphen ==
    k > 1 =>
        IF Hyphens(Taken) # {} /\ Taken[Len(Taken)] # "-"
        THEN SplitAtLastHyphen(Taken, info)
        ELSE WholeToken(Taken, info)

\* C11 witness: a name with two hyphens was split at the second, which
\* leaves the first in the subject id.
C11_Witness ==
    /\ k > 1
    /\ Cardinality(Hyphens(Taken)) = 2
    /\ Hyphens(info.subject_id) # {}
    /\ info.session_id = <<"0">>
    /\ info.session = Taken

(***************************************************************************)
(* Batch submission.                                                       *)
(***************************************************************************)
\* C12: sbatch raises exactly when the submission exits non-zero; after a
\* zero exit it returns the job id of an acknowledgement that names one and
\* the acknowledgement as it is otherwise, and the loop does not count the
\* session as failed.
C12_SbatchOutcome ==
    \A j \in 1..Len(jobs) :
        /\ (jobs[j].returned.kind = "raised") <=> (jobs[j].returncode # 0)
        /\ jobs[j].returncode = 0 =>
               /\ ~processed[j].raised
               /\ jobs[j].out = <<SubmittedBatchJob, "4", "2", "\n">> =>
                      jobs[j].returned.kind = "id" /\ jobs[j].returned.id = 42
               /\ jobs[j].out = <<SubmittedBatchJob, "\n">> =>
                      jobs[j].returned.kind = "raw" /\ jobs[j].returned.out = jobs[j].out

\* The jobs that are running the executor.
Running == {j \in 1..Len(jobs) : jobs[j].status = "running"}

\* C13: no two jobs of one invocation that run at the same time work in
\* the same session directory.
C13_DisjointSessionDirs ==
    \A i \in Running : \A j \in Running :
        i # j => SessionDir(jobs[i].jinfo) # SessionDir(jobs[j].jinfo)

(***************************************************************************)
(* The resolution of the sessions.                                         *)
(***************************************************************************)
NoDefaultCsv == args.sessions = << >> /\ csvfile.state = "missing"

RowLacksSubjectID ==
    /\ csvfile.state = "read"
    /\ \E r \in 1..Len(csvfile.rows) : "SubjectID" \notin DOMAIN csvfile.rows[r]

C18_JobReplaysSession ==
    \A j \in Running :
        /\ jobs[j].jargs.sessions = <<jobs[j].session>>
        /\ jobs[j].jinfo.session = jobs[j].session
        /\ jobs[j].jinfo.subject_id = info.subject_id
        /\ jobs[j].jinfo.session_id = info.session_id
        /\ jobs[j].jargs.brain = args.brain
        /\ jobs[j].jargs.white = args.white
        /\ jobs[j].jargs.pial = args.pial
        /\ jobs[j].jargs.force = args.force
        /\ jobs[j].jargs.cut = args.cut
        /\ jobs[j].jargs.check = args.check
        /\ jobs[j].jargs.pial_outside_white = args.pial_outside_white
        /\ jobs[j].jargs.debug = args.debug
        /\ ~jobs[j].jargs.queue

\* C18 witness: a job runs that was submitted without cutting and without
\* checks for a name the script had to complete.
C18_Witness ==
    \E j \in Running :
        /\ ~args.cut /\ ~args.check /\ args.brain /\ args.force
        /\ jobs[j].session # sessions[1]

(***************************************************************************)
(* The artifacts of a session over its runs.                               *)
(***************************************************************************)
PialOnWhite == isfile(files, "pial_mesh") => isfile(files, "white_mesh")

WhiteHalvesOnWhite ==
    (isfile(files, "right_white_mesh") \/ isfile(files, "left_white_mesh")) =>
        isfile(files, "white_mesh")

WhiteHalvesOnInternal ==
    (isfile(files, "right_white_mesh") \/ isfile(files, "left_white_mesh")) =>
        isfile(files, "internal_mesh")

PialHalvesOnPial ==
    (isfile(files, "right_pial_mesh") \/ isfile(files, "left_pial_mesh")) =>
        isfile(files, "pial_mesh")

\* No os.remove was called on a path that is not a file.
DeletionsOfFiles == failedAt # "os.remove"

\* C21: over any runs of a session that started with its input files only,
\* pial_mesh is there only with white_mesh, a half of the white surface
\* only with white_mesh and internal_mesh, a half of the pial surface only
\* with pial_mesh, and os.remove is called on files only.
C21_ArtifactConsistency ==
    /\ PialOnWhite
    /\ WhiteHalvesOnWhite
    /\ WhiteHalvesOnInternal
    /\ PialHalvesOnPial
    /\ DeletionsOfFiles

====
